---- MODULE Spec2Model ----
(***************************************************************************)
(* Model of the Paxos proposer of src/paxos/src/actors/proposer.rs.        *)
(*                                                                         *)
(* The proposer is a single task: run() takes one message at a time from   *)
(* the client channel or from the acceptor channel and handles it to       *)
(* completion, so every handler is one atomic action.  The broadcast       *)
(* channel is modelled by the sequence of messages sent on it and by its   *)
(* live receiver count; the info! line that announces the quorum of the    *)
(* accept phase is modelled by the sequence of announced events.           *)
(***************************************************************************)
EXTENDS Integers, Sequences, FiniteSets, TLC

\* ---------------------------------------------------------------- bounds
MaxAcceptors == 4        \* largest number of subscribed broadcast receivers
MaxNode == 3             \* acceptor node ids are 1..MaxNode
MaxId == 2               \* proposal ids are 1..MaxId, ordered as the uuids are
MaxValue == 2            \* client values are 1..MaxValue
MaxClientValues == 2     \* client values taken from the client channel
MaxSent == 3             \* messages broadcast by the proposer
MaxEvents == 2           \* quorum announcements of the accept phase

Nodes == 1..MaxNode
Ids == 1..MaxId
Values == 1..MaxValue

\* ----------------------------------------------------------------- state
VARIABLES
    latest_proposal,      \* Option<Proposal>: <<>> is None, <<p>> is Some(p)
    proposal_history,     \* HashMap<ProposalId, u64>
    prepared_nodes,       \* HashSet<u64>
    accepted_value_nodes, \* HashSet<u64>
    receiver_count,       \* acceptor_sender.receiver_count()
    sent,                 \* messages broadcast on acceptor_sender, in order
    events,               \* the values of the "quorum reached" lines, in order
    status,               \* "running", "failed" (run returned Err), "panicked"
    last                  \* the message run() handled last, and its outcome

vars == <<latest_proposal, proposal_history, prepared_nodes,
          accepted_value_nodes, receiver_count, sent, events, status,
          last>>

\* the fields of the Proposer struct
proposer == <<latest_proposal, proposal_history, prepared_nodes,
              accepted_value_nodes>>

None == <<>>
Some(p) == <<p>>

\* Proposer.id, set by Proposer::new
ProposerId == 1

EmptyHistory == [i \in {} |-> 0]

PreparePhaseBody == [issuer_id : Nodes, proposal_id : Ids]
AcceptPhaseBody == [issuer_id : Nodes, proposal_id : Ids, value : Values]

PrepareRequestNoIssuer(id) ==
    [type |-> "PrepareRequest", issuer_id |-> 0, proposal_id |-> id]

PrepareRequest(id) ==
    [type |-> "PrepareRequest", issuer_id |-> ProposerId, proposal_id |-> id]

AcceptRequestIdAsValue(id, v) ==
    [type |-> "AcceptRequest", issuer_id |-> ProposerId, proposal_id |-> id,
     value |-> id]

AcceptRequest(id, v) ==
    [type |-> "AcceptRequest", issuer_id |-> ProposerId, proposal_id |-> id,
     value |-> v]

\* ------------------------------------------------------------ pure parts
\* HashSet::insert
InsertCounting(set, x) ==
    IF x \in set THEN set \cup {x + MaxNode * Cardinality(set)}
    ELSE set \cup {x}

Insert(set, x) == set \cup {x}

\* count > receiver_count / 2, with usize division
QuorumReachedUnanimous(count, receivers) == count >= receivers

QuorumReachedAtHalf(count, receivers) == count >= receivers \div 2

QuorumReached(count, receivers) == count > receivers \div 2

\* received_proposal_id > latest_proposal.id
IsMoreRecentReversed(received, latest) == received < latest

IsMoreRecent(received, latest) == received > latest

\* proposal_history.entry(id).or_insert(value)
OrInsertForgetting(history, id, value) == (id :> value)

OrInsertNothing(history, id, value) == history

OrInsert(history, id, value) ==
    IF id \in DOMAIN history THEN history ELSE history @@ (id :> value)

\* Uuid::now_v7(): a time ordered id, later than every id generated before
NewProposalIds == {id \in Ids : \A k \in DOMAIN proposal_history : id > k}

\* --------------------------------------------------------------- actions
Init ==
    /\ latest_proposal = None
    /\ proposal_history = EmptyHistory
    /\ prepared_nodes = {}
    /\ accepted_value_nodes = {}
    /\ receiver_count \in 0..MaxAcceptors
    /\ sent = <<>>
    /\ events = <<>>
    /\ status = "running"
    /\ last = [op |-> "new"]

\* acceptor_sender.send(message).expect(..): the send fails, and the
\* proposer panics, when no receiver is subscribed
Broadcast(message) ==
    IF receiver_count = 0
    THEN /\ status' = "panicked"
         /\ sent' = sent
    ELSE /\ Len(sent) < MaxSent
         /\ sent' = Append(sent, message)
         /\ status' = status

send_prepare_request(value) ==
    /\ status = "running"
    /\ Cardinality(DOMAIN proposal_history) < MaxClientValues
    /\ \E proposal_id \in NewProposalIds :
        /\ proposal_history' = OrInsert(proposal_history, proposal_id, value)
        /\ latest_proposal' = Some([id |-> proposal_id, value |-> value])
        /\ Broadcast(PrepareRequest(proposal_id))
        /\ last' = [op |-> "ClientValue", value |-> value,
                    proposal_id |-> proposal_id,
                    result |-> IF receiver_count = 0 THEN "Panic" ELSE "Ok"]
    /\ UNCHANGED <<prepared_nodes, accepted_value_nodes, receiver_count,
                   events>>

\* run(): `?` on the handler's result ends the loop with the error
run_on_error_continue(current) == current

run_on_error(current) == "failed"

\* send_accept_request, run with the latest proposal the caller has just set;
\* result is what the caller sees: "Ok", "MissingHistoryEntry" or "Panic"
SendAcceptResult(self_latest_proposal) ==
    IF self_latest_proposal = None THEN "Panic"
    ELSE IF self_latest_proposal[1].id \notin DOMAIN proposal_history
         THEN "MissingHistoryEntry"
         ELSE IF receiver_count = 0 THEN "Panic" ELSE "Ok"

send_accept_request(self_latest_proposal) ==
    IF self_latest_proposal = None
    THEN /\ status' = "panicked"
         /\ sent' = sent
    ELSE LET latest_proposal_id == self_latest_proposal[1].id
         IN IF latest_proposal_id \notin DOMAIN proposal_history
            THEN /\ status' = run_on_error(status)
                 /\ sent' = sent
            ELSE Broadcast(AcceptRequest(latest_proposal_id,
                                         proposal_history[latest_proposal_id]))

handle_prepare_response(received_proposal) ==
    LET received_proposal_id == received_proposal.proposal_id
        node_id == received_proposal.issuer_id
        more_recent ==
            /\ latest_proposal # None
            /\ IsMoreRecent(received_proposal_id, latest_proposal[1].id)
    IN
    /\ status = "running"
    /\ IF more_recent /\ received_proposal_id \notin DOMAIN proposal_history
       THEN /\ status' = run_on_error(status)
            /\ last' = [op |-> "PrepareResponse", body |-> received_proposal,
                        result |-> "MissingHistoryEntry", quorum |-> FALSE]
            /\ UNCHANGED <<latest_proposal, prepared_nodes, sent>>
       ELSE /\ latest_proposal' =
                   IF more_recent
                   THEN Some([id |-> received_proposal_id,
                              value |-> proposal_history[received_proposal_id]])
                   ELSE latest_proposal
            /\ prepared_nodes' = Insert(prepared_nodes, node_id)
            /\ IF QuorumReached(Cardinality(prepared_nodes'), receiver_count)
               THEN /\ send_accept_request(latest_proposal')
                    /\ last' = [op |-> "PrepareResponse",
                                body |-> received_proposal,
                                result |-> SendAcceptResult(latest_proposal'),
                                quorum |-> TRUE]
               ELSE /\ UNCHANGED <<sent, status>>
                    /\ last' = [op |-> "PrepareResponse",
                                body |-> received_proposal,
                                result |-> "Ok", quorum |-> FALSE]
    /\ UNCHANGED <<proposal_history, accepted_value_nodes, receiver_count,
                   events>>

handle_accept_response(received_message) ==
    LET issuer_id == received_message.issuer_id
        value == received_message.value
        \* the same message was handled immediately before this one
        repeat == last.op = "AcceptResponse" /\ last.body = received_message
    IN
    /\ status = "running"
    /\ accepted_value_nodes' = Insert(accepted_value_nodes, issuer_id)
    /\ IF QuorumReached(Cardinality(accepted_value_nodes'), receiver_count)
       THEN /\ Len(events) < MaxEvents
            /\ events' = Append(events, value)
            /\ last' = [op |-> "AcceptResponse", body |-> received_message,
                        result |-> "Ok", quorum |-> TRUE, repeat |-> repeat]
       ELSE /\ events' = events
            /\ last' = [op |-> "AcceptResponse", body |-> received_message,
                        result |-> "Ok", quorum |-> FALSE, repeat |-> repeat]
    /\ UNCHANGED <<latest_proposal, proposal_history, prepared_nodes,
                   receiver_count, sent, status>>

\* run(), `_ => ()`: a request variant arriving on the acceptor channel
handle_other ==
    /\ status = "running"
    /\ last' = [op |-> "Ignored"]
    /\ UNCHANGED <<latest_proposal, proposal_history, prepared_nodes,
                   accepted_value_nodes, receiver_count, sent, events,
                   status>>

\* an acceptor subscribes to the broadcast channel
Subscribe ==
    /\ status = "running"
    /\ receiver_count < MaxAcceptors
    /\ receiver_count' = receiver_count + 1
    /\ last' = [op |-> "Subscribe"]
    /\ UNCHANGED <<latest_proposal, proposal_history, prepared_nodes,
                   accepted_value_nodes, sent, events, status>>

\* an acceptor drops its receiver
Unsubscribe ==
    /\ status = "running"
    /\ receiver_count > 0
    /\ receiver_count' = receiver_count - 1
    /\ last' = [op |-> "Unsubscribe"]
    /\ UNCHANGED <<latest_proposal, proposal_history, prepared_nodes,
                   accepted_value_nodes, sent, events, status>>

\* run(): the two arms of select!, and the match on the acceptor message
ClientValue == \E value \in Values : send_prepare_request(value)

PrepareResponse == \E body \in PreparePhaseBody : handle_prepare_response(body)

AcceptResponse == \E body \in AcceptPhaseBody : handle_accept_response(body)

Next ==
    \/ ClientValue
    \/ PrepareResponse
    \/ AcceptResponse
    \/ handle_other
    \/ Subscribe
    \/ Unsubscribe

Spec == Init /\ [][Next]_vars

\* ------------------------------------------------- a fixed membership
\* No acceptor subscribes or leaves after the proposer has started; the
\* messages of the acceptor channel are still arbitrary.
NextFixed ==
    \/ ClientValue
    \/ PrepareResponse
    \/ AcceptResponse
    \/ handle_other

SpecFixed == Init /\ [][NextFixed]_vars

\* ------------------------------------------- a round with its acceptors
\* The acceptors are the subscribed receivers; they answer the requests the
\* proposer has broadcast, each any number of times and in any order, and
\* the membership does not change.
Acceptors == {n \in Nodes : n <= receiver_count}

PrepareReplyBy(n) ==
    \E i \in DOMAIN sent :
        /\ sent[i].type = "PrepareRequest"
        /\ handle_prepare_response([issuer_id |-> n,
                                    proposal_id |-> sent[i].proposal_id])

AcceptReplyBy(n) ==
    \E i \in DOMAIN sent :
        /\ sent[i].type = "AcceptRequest"
        /\ handle_accept_response([issuer_id |-> n,
                                   proposal_id |-> sent[i].proposal_id,
                                   value |-> sent[i].value])

PrepareReply == \E n \in Acceptors : PrepareReplyBy(n)

AcceptReply == \E n \in Acceptors : AcceptReplyBy(n)

NextRound ==
    \/ ClientValue
    \/ PrepareReply
    \/ AcceptReply

SpecRound == Init /\ [][NextRound]_vars

\* The acceptors of a strict majority answer every request, and run() takes
\* every message that stays in its acceptor channel (select! polls both
\* channels at each turn of the loop); the other acceptors and the client
\* may or may not send anything.
Majority == {n \in Acceptors : n <= receiver_count \div 2 + 1}

SpecLive ==
    /\ Init
    /\ [][NextRound]_vars
    /\ \A n \in Nodes : WF_vars(n \in Majority /\ PrepareReplyBy(n))
    /\ \A n \in Nodes : WF_vars(n \in Majority /\ AcceptReplyBy(n))

\* ------------------------------------------------------------ properties
\* the handler named op has just run (every step of Next sets last)
HandledLast(op) == last.op = op
Handles(op) == last'.op = op /\ vars' # vars

AcceptRequestsSent == {i \in DOMAIN sent : sent[i].type = "AcceptRequest"}
PrepareRequestsSent == {i \in DOMAIN sent : sent[i].type = "PrepareRequest"}

\* C1: in handle_prepare_response and in handle_accept_response the quorum
\* is acted on (send_accept_request is run: an AcceptRequest is broadcast, or
\* the proposer panics in it; respectively consensus is announced) if and only
\* if the tracking set, after the sender is recorded, holds strictly more than
\* half of the receiver count read at that moment: 2 of 4 never, 3 of 4 always.
C1_PrepareQuorum ==
    (Handles("PrepareResponse") /\ last'.result # "MissingHistoryEntry") =>
        LET n == Cardinality(prepared_nodes')
            acted == \/ /\ Len(sent') = Len(sent) + 1
                        /\ sent'[Len(sent')].type = "AcceptRequest"
                     \/ status' = "panicked"
        IN /\ acted <=> 2 * n > receiver_count
           /\ (receiver_count = 4 /\ n = 2) => ~acted
           /\ (receiver_count = 4 /\ n = 3) => acted

C1_AcceptQuorum ==
    Handles("AcceptResponse") =>
        LET n == Cardinality(accepted_value_nodes')
            acted == events' = Append(events, last'.body.value)
        IN /\ acted <=> 2 * n > receiver_count
           /\ ~acted => events' = events
           /\ (receiver_count = 4 /\ n = 2) => ~acted
           /\ (receiver_count = 4 /\ n = 3) => acted

MaxKey(history) == CHOOSE k \in DOMAIN history : \A j \in DOMAIN history : j <= k

C2_AfterPrepareResponse ==
    (HandledLast("PrepareResponse") /\ last.result # "MissingHistoryEntry"
        /\ latest_proposal # None) =>
        /\ DOMAIN proposal_history # {}
        /\ latest_proposal[1].id = MaxKey(proposal_history)
        /\ latest_proposal[1].value = proposal_history[latest_proposal[1].id]

C2_NeverOlder ==
    (latest_proposal # None /\ latest_proposal' # None) =>
        latest_proposal'[1].id >= latest_proposal[1].id

C2_LatestIsGreatest == [](C2_AfterPrepareResponse) /\ [][C2_NeverOlder]_vars

C2_Witness ==
    /\ HandledLast("PrepareResponse")
    /\ last.result = "Ok"
    /\ Cardinality(DOMAIN proposal_history) = 2
    /\ last.body.proposal_id \in DOMAIN proposal_history
    /\ last.body.proposal_id < latest_proposal[1].id

\* C3: with 3 acceptors, after one client value v, PrepareResponses of the 3
\* acceptors and AcceptResponses of the 3 acceptors, consensus has been
\* announced, and every announcement carries v.
C3_RoundTrip ==
    (/\ receiver_count = 3
     /\ Cardinality(DOMAIN proposal_history) = 1
     /\ prepared_nodes = {1, 2, 3}
     /\ accepted_value_nodes = {1, 2, 3}) =>
        /\ events # <<>>
        /\ \A i \in DOMAIN events :
               events[i] = proposal_history[MaxKey(proposal_history)]
        /\ latest_proposal[1].value = proposal_history[MaxKey(proposal_history)]

C3_Witness ==
    /\ receiver_count = 3
    /\ Cardinality(DOMAIN proposal_history) = 1
    /\ prepared_nodes = {1, 2, 3}
    /\ accepted_value_nodes = {1, 2, 3}
    /\ events = <<2, 2>>

\* C4 as claimed: a PrepareResponse whose id is no key of proposal_history
\* always fails with the missing-history error.
C4_AlwaysMissingHistory ==
    (HandledLast("PrepareResponse")
        /\ last.body.proposal_id \notin DOMAIN proposal_history) =>
        last.result = "MissingHistoryEntry"

\* C4: a PrepareResponse whose id is no key of proposal_history fails with
\* the missing-history error exactly when latest_proposal is present and its
\* id is less than the received one, and then nothing is recorded or sent;
\* when latest_proposal is absent or not older, the response is handled
\* without that error.  In both cases no value is adopted.
C4_Step ==
    (Handles("PrepareResponse")
        /\ last'.body.proposal_id \notin DOMAIN proposal_history) =>
        /\ latest_proposal' = latest_proposal
        /\ last'.result = "MissingHistoryEntry" <=>
               (/\ latest_proposal # None
                /\ last'.body.proposal_id > latest_proposal[1].id)
        /\ last'.result = "MissingHistoryEntry" =>
               /\ status' = "failed"
               /\ proposer' = proposer
               /\ sent' = sent
        /\ last'.result # "MissingHistoryEntry" =>
               last'.body.issuer_id \in prepared_nodes'

C4_MissingHistoryOnlyWhenNewer == [][C4_Step]_vars

C4_Witness ==
    /\ HandledLast("PrepareResponse")
    /\ last.result = "MissingHistoryEntry"
    /\ status = "failed"
    /\ latest_proposal # None
    /\ last.body.proposal_id > latest_proposal[1].id
    /\ last.body.issuer_id \notin prepared_nodes

\* C5: with a fixed count of 3 acceptors and a round started by one client
\* value, the PrepareResponse of the second distinct acceptor makes the first
\* and only AcceptRequest be broadcast, with the id of latest_proposal and
\* the value bound to it in proposal_history.
C5_Step ==
    (/\ Handles("PrepareResponse")
     /\ last'.result # "MissingHistoryEntry"
     /\ receiver_count = 3
     /\ latest_proposal # None
     /\ Cardinality(DOMAIN proposal_history) = 1
     /\ Cardinality(prepared_nodes) = 1
     /\ Cardinality(prepared_nodes') = 2) =>
        /\ AcceptRequestsSent = {}
        /\ latest_proposal' # None
        /\ sent' = Append(sent,
              [type |-> "AcceptRequest", issuer_id |-> ProposerId,
               proposal_id |-> latest_proposal'[1].id,
               value |-> proposal_history'[latest_proposal'[1].id]])

C5_OneAcceptRequestAfterTwo == [][C5_Step]_vars

C5_Witness ==
    /\ HandledLast("PrepareResponse")
    /\ receiver_count = 3
    /\ Cardinality(DOMAIN proposal_history) = 1
    /\ Cardinality(prepared_nodes) = 2
    /\ Cardinality(AcceptRequestsSent) = 1
    /\ sent[Len(sent)].type = "AcceptRequest"
    /\ sent[Len(sent)].value = 2

\* C6: a PrepareResponse or AcceptResponse from an acceptor id already
\* recorded leaves the size of the tracking set unchanged, and any response
\* adds at most its own sender.
C6_Step ==
    /\ (Handles("PrepareResponse") /\ last'.result # "MissingHistoryEntry") =>
           /\ last'.body.issuer_id \in prepared_nodes =>
                  Cardinality(prepared_nodes') = Cardinality(prepared_nodes)
           /\ prepared_nodes' \ prepared_nodes \subseteq {last'.body.issuer_id}
    /\ Handles("AcceptResponse") =>
           /\ last'.body.issuer_id \in accepted_value_nodes =>
                  Cardinality(accepted_value_nodes') =
                      Cardinality(accepted_value_nodes)
           /\ accepted_value_nodes' \ accepted_value_nodes
                  \subseteq {last'.body.issuer_id}

C6_OneVotePerAcceptor == [][C6_Step]_vars

\* one acceptor has answered at least twice: two accept broadcasts, one voter
C6_Witness ==
    /\ HandledLast("PrepareResponse")
    /\ prepared_nodes = {last.body.issuer_id}
    /\ Cardinality(AcceptRequestsSent) = 2

\* C7: handling the same AcceptResponse again, right after it was handled,
\* leaves the proposer's fields as they were and takes the same quorum
\* decision: it announces consensus if and only if the first delivery did.
C7_Step ==
    (/\ last.op = "AcceptResponse"
     /\ last'.op = "AcceptResponse"
     /\ last'.body = last.body) =>
        /\ proposer' = proposer
        /\ last'.quorum = last.quorum
        /\ ~last.quorum => events' = events

C7_RedeliveryIdempotent == [][C7_Step]_vars

C7_Witness ==
    /\ HandledLast("AcceptResponse")
    /\ last.repeat
    /\ last.quorum
    /\ Len(events) = 2

\* C8 as claimed: in a round whose AcceptRequest has been broadcast, an
\* AcceptResponse handled right after one that announced consensus does not
\* announce it again.
C8_Step ==
    (/\ last.op = "AcceptResponse"
     /\ last.quorum
     /\ latest_proposal # None
     /\ AcceptRequestsSent # {}
     /\ last'.op = "AcceptResponse") =>
        events' = events

C8_ConsensusDeclaredOnce == [][C8_Step]_vars

\* C9 as claimed: once the accept quorum of a round is reached (its
\* AcceptRequest was broadcast and a majority has answered) the proposer's
\* fields no longer hold the round's data, and a round started after it
\* begins with empty tracking sets.
C9_ErasedAfterRound ==
    /\ (HandledLast("AcceptResponse") /\ last.quorum
            /\ AcceptRequestsSent # {}) =>
           /\ latest_proposal = None
           /\ prepared_nodes = {}
           /\ accepted_value_nodes = {}
    /\ (HandledLast("ClientValue") /\ events # <<>>
            /\ AcceptRequestsSent # {}) =>
           /\ prepared_nodes = {}
           /\ accepted_value_nodes = {}

\* C10 as claimed: consensus is announced only after an AcceptRequest has
\* been broadcast, and an AcceptRequest is broadcast only after a
\* PrepareRequest with the same proposal id.
C10_PrepareThenAccept ==
    /\ events # <<>> => AcceptRequestsSent # {}
    /\ \A i \in AcceptRequestsSent :
           \E j \in PrepareRequestsSent :
               j < i /\ sent[j].proposal_id = sent[i].proposal_id

\* C11: proposal_history is append-only: no step removes a key of it or
\* changes the value bound to a key.
C11_Step ==
    \A k \in DOMAIN proposal_history :
        /\ k \in DOMAIN proposal_history'
        /\ proposal_history'[k] = proposal_history[k]

C11_HistoryAppendOnly == [][C11_Step]_vars

\* a second proposal was recorded beside the first, and handlers ran after it
C11_Witness ==
    /\ DOMAIN proposal_history = {1, 2}
    /\ proposal_history[1] # proposal_history[2]
    /\ HandledLast("AcceptResponse")
    /\ AcceptRequestsSent # {}

\* C12: with a fixed acceptor count, once a client value has been proposed
\* and the acceptors of a strict majority answer, an AcceptRequest is
\* eventually broadcast and consensus is eventually announced, whatever the
\* other acceptors and the client do.
C12_MajorityLeadsToConsensus ==
    (PrepareRequestsSent # {}) ~> (AcceptRequestsSent # {} /\ events # <<>>)

\* consensus with one of three acceptors silent and a second value proposed
C12_Witness ==
    /\ receiver_count = 3
    /\ prepared_nodes = {1, 2}
    /\ accepted_value_nodes = {1, 2}
    /\ Cardinality(DOMAIN proposal_history) = 2
    /\ AcceptRequestsSent # {}
    /\ events # <<>>

\* C13 as claimed: consensus is announced only on a strict majority of
\* AcceptResponses that carry the id and value of latest_proposal.  With a
\* fixed acceptor count the response that makes the first announcement comes
\* from an acceptor not counted before, so it must itself carry them.
C13_QuorumOfCurrentProposal ==
    (/\ HandledLast("AcceptResponse")
     /\ last.quorum
     /\ Len(events) = 1
     /\ AcceptRequestsSent # {}) =>
        /\ latest_proposal # None
        /\ last.body.proposal_id = latest_proposal[1].id
        /\ last.body.value = latest_proposal[1].value

\* C14 as claimed: a PrepareResponse handled while latest_proposal is absent
\* is recorded and never makes send_accept_request run.
C14_NoAcceptWithoutProposal ==
    (HandledLast("PrepareResponse") /\ latest_proposal = None) =>
        /\ ~last.quorum
        /\ status = "running"

\* C15 as claimed: with a fixed acceptor count at most one AcceptRequest is
\* broadcast per proposal id.
C15_OneAcceptRequestPerId ==
    \A i, j \in AcceptRequestsSent :
        sent[i].proposal_id = sent[j].proposal_id => i = j

\* what send_prepare_request does to the proposer's fields, for the client
\* value and the generated id that last' records
C16_Fields ==
    LET id == last'.proposal_id
        v == last'.value
    IN /\ \A k \in DOMAIN proposal_history : id > k
       /\ DOMAIN proposal_history' = DOMAIN proposal_history \cup {id}
       /\ proposal_history'[id] = v
       /\ \A k \in DOMAIN proposal_history :
              proposal_history'[k] = proposal_history[k]
       /\ latest_proposal' = <<[id |-> id, value |-> v]>>
       /\ prepared_nodes' = prepared_nodes
       /\ accepted_value_nodes' = accepted_value_nodes
       /\ events' = events

C16_OneRequest ==
    sent' = Append(sent, [type |-> "PrepareRequest",
                          issuer_id |-> ProposerId,
                          proposal_id |-> last'.proposal_id])

C16_Step ==
    Handles("ClientValue") =>
        /\ C16_Fields
        /\ receiver_count > 0 => (C16_OneRequest /\ status' = "running")
        /\ receiver_count = 0 => (sent' = sent /\ status' = "panicked")

C17_Step ==
    (Len(sent') > Len(sent) /\ sent'[Len(sent')].type = "AcceptRequest") =>
        /\ Handles("PrepareResponse")
        /\ latest_proposal' # None
        /\ latest_proposal'[1].id \in DOMAIN proposal_history'
        /\ sent' = Append(sent,
              [type |-> "AcceptRequest", issuer_id |-> ProposerId,
               proposal_id |-> latest_proposal'[1].id,
               value |-> proposal_history'[latest_proposal'[1].id]])

C17_Sent ==
    \A i \in AcceptRequestsSent :
        /\ sent[i].issuer_id = ProposerId
        /\ sent[i].proposal_id \in DOMAIN proposal_history
        /\ sent[i].value = proposal_history[sent[i].proposal_id]

C17_AcceptRequestContent == [](C17_Sent) /\ [][C17_Step]_vars

\* an AcceptRequest of the second proposal, whose value differs from its id
C17_Witness ==
    /\ HandledLast("PrepareResponse")
    /\ last.result = "Ok"
    /\ last.quorum
    /\ Cardinality(DOMAIN proposal_history) = 2
    /\ sent[Len(sent)] = [type |-> "AcceptRequest", issuer_id |-> ProposerId,
                          proposal_id |-> 2, value |-> 1]
    /\ latest_proposal = <<[id |-> 2, value |-> 1]>>

\* C18: when handle_prepare_response fails on an id missing from
\* proposal_history, the proposer's fields are unchanged, the sender is not
\* recorded, nothing is broadcast or announced, and run() ends with the
\* error: no message is handled after it.
C18_Step ==
    /\ (Handles("PrepareResponse") /\ last'.result = "MissingHistoryEntry") =>
           /\ proposer' = proposer
           /\ prepared_nodes' = prepared_nodes
           /\ sent' = sent
           /\ events' = events
           /\ status = "running"
           /\ status' = "failed"
    /\ status = "failed" => vars' = vars

C18_ErrorLeavesStateAndStops == [][C18_Step]_vars

\* the failed response would have completed the prepare quorum, had its
\* sender been recorded
C18_Witness ==
    /\ HandledLast("PrepareResponse")
    /\ last.result = "MissingHistoryEntry"
    /\ status = "failed"
    /\ receiver_count = 2
    /\ prepared_nodes = {1}
    /\ last.body.issuer_id = 2
    /\ AcceptRequestsSent = {}

\* C19: latest_proposal, when present, holds the greatest key of
\* proposal_history; hence a PrepareResponse whose id is greater than
\* latest_proposal.id always ends in the missing-history error, and only
\* send_prepare_request changes latest_proposal.
C19_LatestIsMaxKey ==
    latest_proposal # None =>
        /\ DOMAIN proposal_history # {}
        /\ latest_proposal[1].id = MaxKey(proposal_history)

C19_Step ==
    /\ (/\ Handles("PrepareResponse")
        /\ latest_proposal # None
        /\ last'.body.proposal_id > latest_proposal[1].id) =>
           /\ last'.result = "MissingHistoryEntry"
           /\ latest_proposal' = latest_proposal
    /\ latest_proposal' # latest_proposal => last'.op = "ClientValue"

C20_LatestInHistory ==
    /\ latest_proposal # None =>
           /\ latest_proposal[1].id \in DOMAIN proposal_history
           /\ proposal_history[latest_proposal[1].id] = latest_proposal[1].value
    /\ (DOMAIN proposal_history = {}) <=> (latest_proposal = None)

\* the second of two proposals, with another value than the first
C20_Witness ==
    /\ DOMAIN proposal_history = {1, 2}
    /\ latest_proposal = <<[id |-> 2, value |-> 2]>>
    /\ proposal_history[1] = 1
    /\ HandledLast("PrepareResponse")
    /\ last.body.proposal_id = 1

====
